---- MODULE Spec2Model ----
(***************************************************************************)
(* Model of the bowtie crate: parse_diagram (src/lib.rs) builds a Diagram  *)
(* from description-language lines, and Brush (src/brush.rs) turns the     *)
(* Diagram into an ordered sequence of calls on a Renderer.                *)
(*                                                                         *)
(* Text is a sequence of one-character strings, so that split_once, trim   *)
(* and split scan characters as the Rust string functions do.              *)
(*                                                                         *)
(* f64 lengths are exact rationals here; every length is stored as an      *)
(* integer number of 1/Scale units (all the constants of brush.rs and all  *)
(* halvings the layout performs are exact multiples of 1/Scale).           *)
(***************************************************************************)
EXTENDS Integers, Sequences, FiniteSets, TLC

VARIABLES pc, diagram, line, nlines, renders

vars == <<pc, diagram, line, nlines, renders>>

(* Bounds of the model. *)
MaxLines == 4
MaxRenders == 2

----------------------------------------------------------------------------
(* Text helpers: str::trim, str::split_once, str::split.                   *)

IsWhitespace(c) == c \in {" ", "\t"}

RECURSIVE TrimStart(_)
TrimStart(s) ==
    IF s = <<>> THEN <<>>
    ELSE IF IsWhitespace(Head(s)) THEN TrimStart(Tail(s))
    ELSE s

RECURSIVE TrimEnd(_)
TrimEnd(s) ==
    IF s = <<>> THEN <<>>
    ELSE IF IsWhitespace(s[Len(s)]) THEN TrimEnd(SubSeq(s, 1, Len(s) - 1))
    ELSE s

Trim(s) == TrimEnd(TrimStart(s))

(* Index of the first occurrence of character d in s, 0 when absent. *)
RECURSIVE FindFrom(_, _, _)
FindFrom(s, d, i) ==
    IF i > Len(s) THEN 0
    ELSE IF s[i] = d THEN i
    ELSE FindFrom(s, d, i + 1)

Find(s, d) == FindFrom(s, d, 1)

(* str::split_once: None, or Some((before, after)) around the first d. *)
NoSplit == [some |-> FALSE, before |-> <<>>, after |-> <<>>]

(* Variant of SplitOnce: a missing delimiter yields (s, "") instead of None. *)
SplitOnce_lenient(s, d) ==
    LET i == Find(s, d)
    IN  IF i = 0 THEN [some |-> TRUE, before |-> s, after |-> <<>>]
        ELSE [some |-> TRUE,
              before |-> SubSeq(s, 1, i - 1),
              after |-> SubSeq(s, i + 1, Len(s))]

SplitOnce(s, d) ==
    LET i == Find(s, d)
    IN  IF i = 0 THEN NoSplit
        ELSE [some |-> TRUE,
              before |-> SubSeq(s, 1, i - 1),
              after |-> SubSeq(s, i + 1, Len(s))]

(* str::split(d): the pieces between the occurrences of d (never empty). *)
RECURSIVE Split(_, _)
Split(s, d) ==
    LET i == Find(s, d)
    IN  IF i = 0 THEN <<s>>
        ELSE <<SubSeq(s, 1, i - 1)>> \o Split(SubSeq(s, i + 1, Len(s)), d)

----------------------------------------------------------------------------
(* Diagram model (src/lib.rs).                                             *)

Cause == "Cause"
Consequence == "Consequence"
ComponentKind == {Cause, Consequence}

Component(name, kind) == [name |-> name, barriers |-> <<>>, kind |-> kind]

DiagramDefault == [title |-> <<>>, event |-> <<>>, components |-> <<>>]

(* The command words of the description language. *)
CmdTitle == <<"t", "i", "t", "l", "e">>
CmdEvent == <<"e", "v", "e", "n", "t">>
CmdCause == <<"c", "a", "u", "s", "e">>
CmdConsequence == <<"c", "o", "n", "s", "e", "q", "u", "e", "n", "c", "e">>
CmdBarrier == <<"b", "a", "r", "r", "i", "e", "r">>

(* .iter().any(|c| c.name == value && c.kind == kind) *)
HasComponent(d, value, kind) ==
    \E i \in 1..Len(d.components) :
        d.components[i].name = value /\ d.components[i].kind = kind

(* Variants of DeclareComponent: without the is_new check; inserting at the *)
(* front instead of pushing at the back.                                    *)
DeclareComponent_always_push(d, value, kind) ==
    [d EXCEPT !.components = Append(@, Component(value, kind))]

DeclareComponent_push_front(d, value, kind) ==
    IF HasComponent(d, value, kind) THEN d
    ELSE [d EXCEPT !.components = <<Component(value, kind)>> \o @]

(* The "cause" / "consequence" arms: push unless already declared. *)
DeclareComponent(d, value, kind) ==
    IF HasComponent(d, value, kind) THEN d
    ELSE [d EXCEPT !.components = Append(@, Component(value, kind))]

(* Variant of IsTarget: the target names are compared untrimmed. *)
IsTarget_no_trim(c, component_names) ==
    \E k \in 1..Len(component_names) : c.name = component_names[k]

(* component_names.iter().any(|name| c.name == name.trim()) *)
IsTarget(c, component_names) ==
    \E k \in 1..Len(component_names) : c.name = Trim(component_names[k])

(* Variant of AttachBarrier: a target that names no component yet is       *)
(* created as a cause that already carries the barrier.                    *)
AttachBarrier_autocreate(d, value) ==
    LET sp == SplitOnce(value, ":")
    IN  IF ~sp.some THEN d
        ELSE LET barrier_name == Trim(sp.before)
                 component_names == Split(Trim(sp.after), ",")
                 attached ==
                    [i \in 1..Len(d.components) |->
                        IF IsTarget(d.components[i], component_names)
                        THEN [d.components[i] EXCEPT
                                !.barriers = Append(@, barrier_name)]
                        ELSE d.components[i]]
                 missing ==
                    SelectSeq([k \in 1..Len(component_names) |->
                                  Trim(component_names[k])],
                              LAMBDA n : \A i \in 1..Len(d.components) :
                                            d.components[i].name # n)
             IN  [d EXCEPT !.components =
                    attached \o [k \in 1..Len(missing) |->
                        [name |-> missing[k], barriers |-> <<barrier_name>>,
                         kind |-> Cause]]]

(* The "barrier" arm. *)
AttachBarrier(d, value) ==
    LET sp == SplitOnce(value, ":")
    IN  IF ~sp.some THEN d
        ELSE LET barrier_name == Trim(sp.before)
                 component_names == Split(Trim(sp.after), ",")
             IN  [d EXCEPT !.components =
                    [i \in 1..Len(d.components) |->
                        IF IsTarget(d.components[i], component_names)
                        THEN [d.components[i] EXCEPT
                                !.barriers = Append(@, barrier_name)]
                        ELSE d.components[i]]]

(* The body of the `for line in lines` loop of parse_diagram. *)
ParseLine(d, l) ==
    LET sp == SplitOnce(l, " ")
    IN  IF ~sp.some THEN d
        ELSE LET command == sp.before
                 value == Trim(sp.after)
             IN  CASE command = CmdTitle -> [d EXCEPT !.title = value]
                   [] command = CmdCause -> DeclareComponent(d, value, Cause)
                   [] command = CmdConsequence ->
                        DeclareComponent(d, value, Consequence)
                   [] command = CmdEvent -> [d EXCEPT !.event = value]
                   [] command = CmdBarrier -> AttachBarrier(d, value)
                   [] OTHER -> d

----------------------------------------------------------------------------
(* Layout engine (src/brush.rs).                                           *)

(* Lengths are integers counting 1/Scale: two successive halvings          *)
(* (radius = width / 2, canvas_width / 2) of integer lengths stay exact.   *)
Scale == 2 * 2
Q(v) == v * Scale

COMPONENT_HEIGHT == 50
BARRIER_WIDTH == 25
BARRIER_PADDING_RIGHT == 10
COMPONENT_MARGIN_BOTTOM == 20
COMPONENT_PADDING_X == 10
BARRIER_MARGIN_RIGHT == 50
BARRIERS_CONTAINER_HORIZONTAL_PADDING == 150

Max(a, b) == IF a >= b THEN a ELSE b
Range(s) == {s[i] : i \in 1..Len(s)}

RECURSIVE Gcd(_, _)
Gcd(a, b) == IF b = 0 THEN a ELSE Gcd(b, a % b)
Abs(a) == IF a < 0 THEN -a ELSE a

(* An f64 value that need not be a multiple of 1/Scale: n / d in lowest    *)
(* terms with d > 0; d = 0 encodes the non-finite values of a division by  *)
(* zero: n = 1 is +inf, n = -1 is -inf, n = 0 is NaN.                      *)
Frac(n, d) ==
    IF d = 0 THEN [n |-> IF n > 0 THEN 1 ELSE IF n < 0 THEN -1 ELSE 0, d |-> 0]
    ELSE LET g == Gcd(Abs(n), Abs(d))
             sgn == IF d < 0 THEN -1 ELSE 1
         IN  [n |-> sgn * (n \div g), d |-> sgn * (d \div g)]

Whole(v) == [n |-> v, d |-> 1]

(* `as u32` on an f64 with an integral value: negative values saturate to  *)
(* 0; the saturation at 2^32 - 1 is out of reach of any name length here.  *)
AsU32(v) == IF v < 0 THEN 0 ELSE v

text_width(text) == Q(Len(text) * 15)

calculate_event_circle_radius(event) == text_width(event) \div 2

filter_components(d, kind) == SelectSeq(d.components, LAMBDA c : c.kind = kind)

filter_barriers(components) ==
    UNION {Range(components[i].barriers) : i \in 1..Len(components)}

calculate_components_container_height_by_count(components_count) ==
    components_count * Q(COMPONENT_HEIGHT)
        + ((components_count - 1) * Q(COMPONENT_MARGIN_BOTTOM))

calculate_components_container_height(components) ==
    calculate_components_container_height_by_count(Len(components))

calculate_barriers_height(components) ==
    calculate_components_container_height_by_count(
        Cardinality(UNION {Range(components[i].barriers) :
                            i \in 1..Len(components)}))

(* Variant of calculate_barriers_container_width: the margin count is       *)
(* written 1 - count instead of count - 1.                                 *)
calculate_barriers_container_width_swapped(barriers) ==
    LET barriers_count == Cardinality(barriers)
        padding == Q(BARRIERS_CONTAINER_HORIZONTAL_PADDING) * 2
    IN  barriers_count * Q(BARRIER_WIDTH)
            + ((1 - barriers_count) * Q(BARRIER_MARGIN_RIGHT)) + padding

calculate_barriers_container_width(barriers) ==
    LET barriers_count == Cardinality(barriers)
        padding == Q(BARRIERS_CONTAINER_HORIZONTAL_PADDING) * 2
    IN  barriers_count * Q(BARRIER_WIDTH)
            + ((barriers_count - 1) * Q(BARRIER_MARGIN_RIGHT)) + padding

calculate_canvas_width(d, max_component_box_width, max_barriers_container_width) ==
    calculate_event_circle_radius(d.event)
        + (max_component_box_width * 2)
        + (max_barriers_container_width * 2)

calculate_max_barriers_container_width(a, b) ==
    Max(calculate_barriers_container_width(a),
        calculate_barriers_container_width(b))

MaxOver(S) ==
    IF S = {} THEN 0
    ELSE LET v == CHOOSE v \in S : \A w \in S : v >= w IN v

calculate_max_component_box_width(components) ==
    MaxOver({Q(AsU32(Len(components[i].name) * 15)) : i \in 1..Len(components)})

calculate_max_components_box_width(a, b) ==
    Max(calculate_max_component_box_width(a),
        calculate_max_component_box_width(b))

(* setup_canvas: the Context it returns (the setup call is emitted by      *)
(* render_diagram_into_bytes below).                                       *)
setup_canvas(causes, consequences, d, max_component_box_width, max_barriers_container_width) ==
    LET causes_container_height == calculate_components_container_height(causes)
        consequences_container_height ==
            calculate_components_container_height(consequences)
        max_barriers_height ==
            calculate_barriers_height(causes) + calculate_barriers_height(consequences)
        max_container_height ==
            Max(causes_container_height, consequences_container_height)
                + max_barriers_height
        canvas_height == (max_container_height * 11) \div 10 + Q(150)
        canvas_width == calculate_canvas_width(d, max_component_box_width,
                                               max_barriers_container_width)
    IN  [canvas_height |-> canvas_height,
         canvas_width |-> canvas_width,
         causes_container_height |-> causes_container_height,
         consequences_container_height |-> consequences_container_height,
         max_component_box_width |-> max_component_box_width,
         circle_left_point |-> [some |-> FALSE, x |-> 0, y |-> 0],
         circle_right_point |-> [some |-> FALSE, x |-> 0, y |-> 0]]

get_component_x_center(kind, ctx) ==
    IF kind = Cause
    THEN (ctx.max_component_box_width \div 2) + Q(COMPONENT_PADDING_X)
    ELSE ctx.canvas_width - (ctx.max_component_box_width \div 2)
            - Q(COMPONENT_PADDING_X)

get_component_y_center(i, kind, ctx) ==
    LET container_height == IF kind = Cause THEN ctx.causes_container_height
                            ELSE ctx.consequences_container_height
        components_container_top ==
            (ctx.canvas_height \div 2) - (container_height \div 2)
        y_relative == i * Q(COMPONENT_HEIGHT) + (i * Q(COMPONENT_MARGIN_BOTTOM))
    IN  components_container_top + y_relative + (Q(COMPONENT_HEIGHT) \div 2)

get_barrier_x_center(i, kind, ctx) ==
    LET component_x == get_component_x_center(kind, ctx)
    IN  IF kind = Cause
        THEN component_x
                + (ctx.max_component_box_width \div 2)
                + (i * (Q(BARRIER_WIDTH) + Q(BARRIER_PADDING_RIGHT)))
                + ((i + 1) * Q(BARRIER_PADDING_RIGHT))
                + Q(BARRIER_WIDTH) \div 2
        ELSE component_x
                - (ctx.max_component_box_width \div 2)
                - (i * Q(BARRIER_WIDTH))
                - ((i + 1) * Q(BARRIER_PADDING_RIGHT))
                - Q(BARRIER_WIDTH) \div 2

(* Variant of get_slope_point: a zero run is guarded and yields from.y. *)
get_slope_point_guarded(from, to, x) ==
    LET run == to.x - from.x
        rise == to.y - from.y
        delta_x == x - from.x
    IN  IF run = 0 THEN [x |-> x, y |-> Whole(from.y)]
        ELSE [x |-> x, y |-> Frac(from.y * run + rise * delta_x, run)]

(* get_slope_point: from, to are points with whole coordinates; the y of   *)
(* the result is from.y + (rise / run) * delta_x as a fraction.            *)
get_slope_point(from, to, x) ==
    LET run == to.x - from.x
        rise == to.y - from.y
        delta_x == x - from.x
    IN  IF run = 0
        THEN (* slope is +-inf (rise # 0) or NaN (rise = 0); inf * 0 = NaN *)
             [x |-> x,
              y |-> IF rise = 0 \/ delta_x = 0 THEN Frac(0, 0)
                    ELSE Frac(rise * delta_x, 0)]
        ELSE [x |-> x, y |-> Frac(from.y * run + rise * delta_x, run)]

get_barrier_label_alignment(kind) == IF kind = Cause THEN "Left" ELSE "Right"

(* format!("{}", n) for an unsigned integer: its decimal digits. *)
Digit(k) == CASE k = 0 -> "0" [] k = 1 -> "1" [] k = 2 -> "2" [] k = 3 -> "3"
              [] k = 4 -> "4" [] k = 5 -> "5" [] k = 6 -> "6" [] k = 7 -> "7"
              [] k = 8 -> "8" [] k = 9 -> "9"

RECURSIVE Format(_)
Format(n) == IF n < 10 THEN <<Digit(n)>> ELSE Format(n \div 10) \o <<Digit(n % 10)>>

get_barrier_label(kind, label_id, barrier) ==
    IF kind = Cause
    THEN <<"[">> \o label_id \o <<"]", " ">> \o barrier
    ELSE barrier \o <<" ", "[">> \o label_id \o <<"]">>

----------------------------------------------------------------------------
(* Calls on the Renderer (src/renderer/mod.rs).  A call is recorded with   *)
(* its arguments: text, the rectangle or points (x, y, w, h, x2, y2), the  *)
(* radius r and the alignment; y is a Frac, every other length is whole.   *)
(* `site` is not an argument: it names the Brush method that made the call *)
(* and the values of its loop variables (kind, slot i, barrier, component  *)
(* index j) at that moment.                                                *)

NoSite == [fn |-> "none", kind |-> "none", i |-> -1, j |-> -1, barrier |-> <<>>]

NoCall == [op |-> "none", text |-> <<>>, align |-> "none",
           x |-> 0, y |-> Whole(0), w |-> 0, h |-> 0, r |-> 0,
           x2 |-> 0, y2 |-> Whole(0), site |-> NoSite]

Site(fn, kind, i, j, barrier) ==
    [fn |-> fn, kind |-> kind, i |-> i, j |-> j, barrier |-> barrier]

setup(width, height, site) ==
    [NoCall EXCEPT !.op = "setup", !.w = width, !.h = height, !.site = site]

draw_line(from, to, site) ==
    [NoCall EXCEPT !.op = "draw_line", !.x = from.x, !.y = Whole(from.y),
                   !.x2 = to.x, !.y2 = Whole(to.y), !.site = site]

draw_circle(radius, centre, site) ==
    [NoCall EXCEPT !.op = "draw_circle", !.r = radius, !.x = centre.x,
                   !.y = Whole(centre.y), !.site = site]

draw_text(text, rect, alignment, site) ==
    [NoCall EXCEPT !.op = "draw_text", !.text = text, !.align = alignment,
                   !.x = rect.x, !.y = rect.y, !.w = rect.w, !.h = rect.h,
                   !.site = site]

draw_rectangle(rect, site) ==
    [NoCall EXCEPT !.op = "draw_rectangle",
                   !.x = rect.x, !.y = rect.y, !.w = rect.w, !.h = rect.h,
                   !.site = site]

draw_text_with_rectangle(text, rect, alignment, site) ==
    [NoCall EXCEPT !.op = "draw_text_with_rectangle", !.text = text,
                   !.align = alignment,
                   !.x = rect.x, !.y = rect.y, !.w = rect.w, !.h = rect.h,
                   !.site = site]

into_bytes(site) == [NoCall EXCEPT !.op = "into_bytes", !.site = site]

Rectangle(x, y, width, height) == [x |-> x, y |-> y, w |-> width, h |-> height]

(* The arguments of a call, without the site. *)
Args(c) == [f \in (DOMAIN c) \ {"site"} |-> c[f]]

----------------------------------------------------------------------------
(* Brush (src/brush.rs).                                                   *)

(* Concatenation of f(1) .. f(n), each a sequence of calls. *)
RECURSIVE Concat(_, _)
Concat(f, n) == IF n = 0 THEN <<>> ELSE Concat(f, n - 1) \o f[n]

(* Variant of get_component_edge: both lanes use the right edge. *)
get_component_edge_right(ctx, kind, i) ==
    LET y == get_component_y_center(i, kind, ctx)
        x_center == get_component_x_center(kind, ctx)
    IN  [x |-> x_center + ctx.max_component_box_width \div 2, y |-> y]

get_component_edge(ctx, kind, i) ==
    LET y == get_component_y_center(i, kind, ctx)
        x_center == get_component_x_center(kind, ctx)
        x_edge == IF kind = Cause
                  THEN x_center + ctx.max_component_box_width \div 2
                  ELSE x_center - ctx.max_component_box_width \div 2
    IN  [x |-> x_edge, y |-> y]

get_component_circle_point(ctx, kind) ==
    IF kind = Cause THEN ctx.circle_left_point ELSE ctx.circle_right_point

(* Variant of render_event_circle: circle_right_point is never recorded. *)
render_event_circle_no_right(ctx, d) ==
    LET radius == calculate_event_circle_radius(d.event)
        cx == ctx.canvas_width \div 2
        cy == ctx.canvas_height \div 2
        site == Site("render_event_circle", "none", -1, -1, <<>>)
    IN  [calls |-> <<draw_circle(radius, [x |-> cx, y |-> cy], site),
                     draw_text(d.event, Rectangle(cx, Whole(cy), radius, radius),
                               "Center", site)>>,
         context |-> [ctx EXCEPT
            !.circle_left_point = [some |-> TRUE, x |-> cx - radius, y |-> cy]]]

(* render_event_circle: the calls it makes and the Context it leaves. *)
render_event_circle(ctx, d) ==
    LET radius == calculate_event_circle_radius(d.event)
        cx == ctx.canvas_width \div 2
        cy == ctx.canvas_height \div 2
        site == Site("render_event_circle", "none", -1, -1, <<>>)
    IN  [calls |-> <<draw_circle(radius, [x |-> cx, y |-> cy], site),
                     draw_text(d.event, Rectangle(cx, Whole(cy), radius, radius),
                               "Center", site)>>,
         context |-> [ctx EXCEPT
            !.circle_left_point = [some |-> TRUE, x |-> cx - radius, y |-> cy],
            !.circle_right_point = [some |-> TRUE, x |-> cx + radius, y |-> cy]]]

render_components(ctx, components, kind) ==
    [i \in 1..Len(components) |->
        LET y == get_component_y_center(i - 1, kind, ctx)
            x == get_component_x_center(kind, ctx)
            rectangle == Rectangle(x, Whole(y), ctx.max_component_box_width,
                                   Q(COMPONENT_HEIGHT))
        IN  draw_text_with_rectangle(components[i].name, rectangle, "Center",
                Site("render_components", kind, -1, i - 1, <<>>))]

render_barrier_lines(ctx, components, kind) ==
    LET circle_point == get_component_circle_point(ctx, kind)
    IN  [i \in 1..Len(components) |->
            draw_line(get_component_edge(ctx, kind, i - 1), circle_point,
                      Site("render_barrier_lines", kind, -1, i - 1, <<>>))]

(* HashMap<String, u32> built by get_barrier_frequencies: one entry per    *)
(* barrier name, counting every occurrence in every barrier list.          *)
RECURSIVE CountIn(_, _)
CountIn(s, b) ==
    IF s = <<>> THEN 0
    ELSE (IF Head(s) = b THEN 1 ELSE 0) + CountIn(Tail(s), b)

RECURSIVE SumOver(_, _, _)
SumOver(components, b, n) ==
    IF n = 0 THEN 0
    ELSE SumOver(components, b, n - 1) + CountIn(components[n].barriers, b)

frequencies(components) ==
    [b \in filter_barriers(components) |->
        SumOver(components, b, Len(components))]

(* HashMap::into_iter with the default RandomState hasher: the entries in  *)
(* an order the program does not control; any order can come out.          *)
IterationOrders(m) ==
    LET n == Cardinality(DOMAIN m)
    IN  {[i \in 1..n |-> <<p[i], m[p[i]]>>] :
            p \in {q \in [1..n -> DOMAIN m] :
                    \A i, j \in 1..n : i # j => q[i] # q[j]}}

(* sort_by(|a, b| a.1.cmp(&b.1).reverse()): stable, descending frequency.  *)
RECURSIVE InsertByFrequency(_, _)
InsertByFrequency(sorted, e) ==
    IF sorted = <<>> THEN <<e>>
    ELSE IF sorted[Len(sorted)][2] >= e[2] THEN Append(sorted, e)
    ELSE Append(InsertByFrequency(SubSeq(sorted, 1, Len(sorted) - 1), e),
                sorted[Len(sorted)])

RECURSIVE SortByFrequency(_)
SortByFrequency(v) ==
    IF v = <<>> THEN <<>>
    ELSE InsertByFrequency(SortByFrequency(SubSeq(v, 1, Len(v) - 1)), v[Len(v)])

(* The vectors get_barrier_frequencies can return for these components. *)
get_barrier_frequencies(components) ==
    {SortByFrequency(v) : v \in IterationOrders(frequencies(components))}

(* Variant of Contains: only the first element is looked at. *)
Contains_first_only(s, e) == s # <<>> /\ s[1] = e

(* Vec::contains *)
Contains(s, e) == \E k \in 1..Len(s) : s[k] = e

(* render_barriers, given the vector get_barrier_frequencies returned. *)
render_barriers(ctx, components, kind, id_offset, barrier_frequencies) ==
    LET circle_point == get_component_circle_point(ctx, kind)
        OneBarrier(n) ==
            LET i == n - 1
                barrier == barrier_frequencies[n][1]
                x == get_barrier_x_center(i, kind, ctx)
                label_id == Format(id_offset + i + 1)
                label_y == get_component_y_center(Len(components) + i, kind, ctx)
                label_x == get_component_x_center(kind, ctx)
                barrier_components ==
                    SelectSeq([j \in 1..Len(components) |-> j],
                              LAMBDA j : Contains(components[j].barriers, barrier))
            IN  <<draw_text(label_id,
                            Rectangle(x, Whole(get_component_y_center(-1, kind, ctx)),
                                      Q(BARRIER_WIDTH), Q(COMPONENT_HEIGHT)),
                            "Center",
                            Site("render_barriers.id", kind, i, -1, barrier)),
                  draw_text(get_barrier_label(kind, label_id, barrier),
                            Rectangle(label_x, Whole(label_y),
                                      ctx.max_component_box_width,
                                      Q(COMPONENT_HEIGHT)),
                            get_barrier_label_alignment(kind),
                            Site("render_barriers.label", kind, i, -1, barrier))>>
                \o [k \in 1..Len(barrier_components) |->
                      LET j == barrier_components[k] - 1
                          barrier_point ==
                              get_slope_point(get_component_edge(ctx, kind, j),
                                              circle_point, x)
                      IN  draw_rectangle(
                              Rectangle(barrier_point.x, barrier_point.y,
                                        Q(BARRIER_WIDTH), Q(COMPONENT_HEIGHT)),
                              Site("render_barriers.rect", kind, i, j, barrier))]
    IN  Concat([n \in 1..Len(barrier_frequencies) |-> OneBarrier(n)],
               Len(barrier_frequencies))

(* Brush::render_diagram_into_bytes up to the setup_canvas call: the        *)
(* Context the canvas is set up with.                                      *)
canvas(d) ==
    LET causes == filter_components(d, Cause)
        consequences == filter_components(d, Consequence)
        barriers_causes == filter_barriers(causes)
        barriers_consequences == filter_barriers(consequences)
        max_component_box_width ==
            calculate_max_components_box_width(causes, consequences)
        max_barrier_container_width ==
            calculate_max_barriers_container_width(barriers_causes,
                                                   barriers_consequences)
    IN  setup_canvas(causes, consequences, d, max_component_box_width,
                     max_barrier_container_width)

(* Brush::render_diagram_into_bytes followed by Brush::render: the whole   *)
(* sequence of calls on the renderer, given the two vectors that           *)
(* get_barrier_frequencies returned for the cause and consequence lanes.   *)
render_diagram_into_bytes(d, fc, fq) ==
    LET causes == filter_components(d, Cause)
        consequences == filter_components(d, Consequence)
        context0 == canvas(d)
        circle == render_event_circle(context0, d)
        context == circle.context
        drawn ==
            <<setup(context0.canvas_width, context0.canvas_height,
                    Site("setup_canvas", "none", -1, -1, <<>>)),
              draw_rectangle(Rectangle(context0.canvas_width \div 2,
                                       Whole(context0.canvas_height \div 2),
                                       context0.canvas_width,
                                       context0.canvas_height),
                             Site("render", "none", -1, -1, <<>>))>>
            \o render_components(context0, causes, Cause)
            \o render_components(context0, consequences, Consequence)
            \o circle.calls
    IN  (* get_component_circle_point unwraps the Option: a point that was  *)
        (* never recorded panics there and no later call is made.          *)
        IF ~context.circle_left_point.some THEN drawn
        ELSE IF ~context.circle_right_point.some
        THEN drawn \o render_barrier_lines(context, causes, Cause)
        ELSE drawn
            \o render_barrier_lines(context, causes, Cause)
            \o render_barrier_lines(context, consequences, Consequence)
            \o render_barriers(context, causes, Cause, 0, fc)
            \o render_barriers(context, consequences, Consequence, Len(causes), fq)
            \o <<into_bytes(Site("render", "none", -1, -1, <<>>))>>

----------------------------------------------------------------------------
(* Input lines the model feeds to parse_diagram.                           *)

SP == <<" ">>

(* n times the character c. *)
RECURSIVE Repeat(_, _)
Repeat(c, n) == IF n = 0 THEN <<>> ELSE Append(Repeat(c, n - 1), c)

LineTitle == CmdTitle \o SP \o <<"T">>
LineEvent == CmdEvent \o SP \o <<"E">>
LineEventPadded == CmdEvent \o SP \o <<" ", "E", "e", " ">>
LineEventLong == CmdEvent \o SP \o Repeat("e", 84)
LineCauseA == CmdCause \o SP \o <<"a">>
LineCauseAPadded == CmdCause \o SP \o <<" ", "a", "\t">>
LineCauseBB == CmdCause \o SP \o <<"b", "b">>
LineConsequenceA == CmdConsequence \o SP \o <<"a">>
LineConsequenceC == CmdConsequence \o SP \o <<"c">>
LineBarrierXA == CmdBarrier \o SP \o <<"x", ":", " ", "a">>
LineBarrierYAC == CmdBarrier \o SP \o <<"y", " ", ":", "a", " ", ",", " ", "c">>
LineBarrierXBBQ == CmdBarrier \o SP \o <<"x", ":", "b", "b", ",", "q">>
LineBarrierZQ == CmdBarrier \o SP \o <<"z", ":", " ", "q">>
LineBarrierNoColon == CmdBarrier \o SP \o <<"x", " ", "a">>
LineNoSpace == CmdCause
LineUnknown == <<"n", "o", "t", "e">> \o SP \o <<"a">>
LineEmpty == <<>>

Lines ==
    { LineTitle, LineEvent, LineEventPadded, LineEventLong,
      LineCauseA, LineCauseAPadded, LineCauseBB,
      LineConsequenceA, LineConsequenceC,
      LineBarrierXA, LineBarrierYAC, LineBarrierXBBQ, LineBarrierZQ,
      LineBarrierNoColon, LineNoSpace, LineUnknown, LineEmpty }

----------------------------------------------------------------------------
(* The program: generate_bowtie parses the input line by line, then        *)
(* renders the diagram.                                                    *)

Init ==
    /\ pc = "parsing"
    /\ diagram = DiagramDefault
    /\ line = <<>>
    /\ nlines = 0
    /\ renders = <<>>

(* One iteration of the `for line in lines` loop of parse_diagram. *)
ReadLine ==
    /\ pc = "parsing"
    /\ nlines < MaxLines
    /\ \E l \in Lines :
        /\ line' = l
        /\ diagram' = ParseLine(diagram, l)
    /\ nlines' = nlines + 1
    /\ UNCHANGED <<pc, renders>>

(* The loop ends: parse_diagram returns the diagram. *)
EndOfInput ==
    /\ pc = "parsing"
    /\ pc' = "parsed"
    /\ line' = <<>>
    /\ UNCHANGED <<diagram, nlines, renders>>

(* Brush::render_diagram_into_bytes on the parsed diagram. *)
Render ==
    /\ pc = "parsed"
    /\ Len(renders) < MaxRenders
    /\ \E fc \in get_barrier_frequencies(filter_components(diagram, Cause)),
          fq \in get_barrier_frequencies(filter_components(diagram, Consequence)) :
            renders' = Append(renders, render_diagram_into_bytes(diagram, fc, fq))
    /\ UNCHANGED <<pc, diagram, line, nlines>>

Next == ReadLine \/ EndOfInput \/ Render

Spec == Init /\ [][Next]_vars

----------------------------------------------------------------------------
(* Properties of parse_diagram.                                            *)

(* The step is one iteration of the parse loop. *)
LineStep == pc = "parsing" /\ nlines' = nlines + 1

(* The text before / after the first occurrence of d in l (l has one). *)
Before(l, d) == SubSeq(l, 1, Find(l, d) - 1)
After(l, d) == SubSeq(l, Find(l, d) + 1, Len(l))

HasSpace(l) == Find(l, " ") # 0
CommandOf(l) == Before(l, " ")
ValueOf(l) == Trim(After(l, " "))

KindCommand(kind) == IF kind = Cause THEN CmdCause ELSE CmdConsequence

(* l declares a component of this kind whose name d already holds. *)
Redeclares(l, d, kind) ==
    /\ HasSpace(l)
    /\ CommandOf(l) = KindCommand(kind)
    /\ \E i \in 1..Len(d.components) :
        d.components[i].kind = kind /\ d.components[i].name = ValueOf(l)

OnePerKindAndName(d) ==
    \A i, j \in 1..Len(d.components) :
        (/\ d.components[i].kind = d.components[j].kind
         /\ d.components[i].name = d.components[j].name) => i = j

(* C1: after every parsed line the diagram holds at most one component per *)
(* (kind, trimmed name), every name is trimmed, and a cause / consequence  *)
(* line naming an existing component of its kind leaves the component      *)
(* sequence, barrier lists included, unchanged.                            *)
C1_OneComponentPerName ==
    [][LineStep =>
        /\ OnePerKindAndName(diagram')
        /\ \A i \in 1..Len(diagram'.components) :
              Trim(diagram'.components[i].name) = diagram'.components[i].name
        /\ \A kind \in ComponentKind :
              Redeclares(line', diagram, kind) =>
                  diagram'.components = diagram.components]_vars

(* A padded redeclaration of cause "a" was the third line, after a barrier *)
(* had already been attached to the one cause "a".                         *)
C1_Witness ==
    /\ nlines = 3
    /\ line = LineCauseAPadded
    /\ diagram.components = <<[name |-> <<"a">>, barriers |-> <<<<"x">>>>,
                               kind |-> Cause]>>

IsBarrierLine(l) ==
    /\ HasSpace(l)
    /\ CommandOf(l) = CmdBarrier
    /\ Find(ValueOf(l), ":") # 0

BarrierNameOf(l) == Trim(Before(ValueOf(l), ":"))

(* The trimmed target names T1 .. Tk of a barrier line. *)
TargetsOf(l) ==
    LET pieces == Split(After(ValueOf(l), ":"), ",")
    IN  {Trim(pieces[k]) : k \in 1..Len(pieces)}

(* C2: a barrier line appends the barrier name once to the barrier list of *)
(* every component, of either kind, whose name is one of the trimmed       *)
(* targets, and changes nothing else: other barrier lists, the names,      *)
(* kinds and order of the components, the title and the event.             *)
C2_BarrierFrame ==
    [][(LineStep /\ IsBarrierLine(line')) =>
        /\ diagram'.title = diagram.title
        /\ diagram'.event = diagram.event
        /\ Len(diagram'.components) = Len(diagram.components)
        /\ \A i \in 1..Len(diagram.components) :
            LET c == diagram.components[i]
                c2 == diagram'.components[i]
            IN  /\ c2.name = c.name
                /\ c2.kind = c.kind
                /\ c2.barriers =
                     IF c.name \in TargetsOf(line')
                     THEN Append(c.barriers, BarrierNameOf(line'))
                     ELSE c.barriers]_vars

(* "barrier y :a , c" was the last of four lines: cause "a" and            *)
(* consequence "c" received "y", cause "bb" was left alone.                *)
C2_Witness ==
    /\ nlines = 4
    /\ line = LineBarrierYAC
    /\ \E i, j, k \in 1..Len(diagram.components) :
        /\ diagram.components[i] =
              [name |-> <<"a">>, barriers |-> <<<<"y">>>>, kind |-> Cause]
        /\ diagram.components[j] =
              [name |-> <<"c">>, barriers |-> <<<<"y">>>>, kind |-> Consequence]
        /\ diagram.components[k] =
              [name |-> <<"b", "b">>, barriers |-> <<>>, kind |-> Cause]

KnownCommands == {CmdTitle, CmdEvent, CmdCause, CmdConsequence, CmdBarrier}

IsSkippedLine(l) ==
    \/ ~HasSpace(l)
    \/ HasSpace(l) /\ CommandOf(l) \notin KnownCommands
    \/ HasSpace(l) /\ CommandOf(l) = CmdBarrier /\ Find(ValueOf(l), ":") = 0

(* C3: a line without a space, a line with an unknown command and a        *)
(* barrier line without a colon leave the whole diagram as it was, and the *)
(* parser stays in its loop, ready for the next line.                      *)
C3_SkippedLines ==
    [][(LineStep /\ IsSkippedLine(line')) =>
        (diagram' = diagram /\ pc' = "parsing")]_vars

(* The second line was the colon-less barrier line naming the cause "a"    *)
(* declared by the first, and "a" has no barrier.                          *)
C3_Witness ==
    /\ nlines = 2
    /\ line = LineBarrierNoColon
    /\ pc = "parsing"
    /\ diagram.components = <<[name |-> <<"a">>, barriers |-> <<>>,
                               kind |-> Cause]>>

IsPrefix(s, t) == Len(s) <= Len(t) /\ SubSeq(t, 1, Len(s)) = s

(* C4: the component sequence is append-only: every step keeps each        *)
(* existing component at its index with its name and kind, removes none,   *)
(* and can only extend its barrier list at the end.                        *)
C4_AppendOnly ==
    [][/\ Len(diagram'.components) >= Len(diagram.components)
       /\ \A i \in 1..Len(diagram.components) :
            /\ diagram'.components[i].name = diagram.components[i].name
            /\ diagram'.components[i].kind = diagram.components[i].kind
            /\ IsPrefix(diagram.components[i].barriers,
                        diagram'.components[i].barriers)]_vars

(* Two components were declared and the first one then received a barrier. *)
C4_Witness ==
    /\ Len(diagram.components) = 2
    /\ diagram.components[1].name # diagram.components[2].name
    /\ Len(diagram.components[1].barriers) = 1
    /\ line \in {LineBarrierXA, LineBarrierYAC, LineBarrierXBBQ}

----------------------------------------------------------------------------
(* Properties of the rendering.                                            *)

Renders == Range(renders)

Causes == filter_components(diagram, Cause)
Consequences == filter_components(diagram, Consequence)
Lane(kind) == IF kind = Cause THEN Causes ELSE Consequences

(* The distinct barrier names of a lane. *)
DistinctBarriers(kind) ==
    {b \in UNION {Range(diagram.components[i].barriers) :
                    i \in 1..Len(diagram.components)} :
        \E i \in 1..Len(diagram.components) :
            /\ diagram.components[i].kind = kind
            /\ b \in Range(diagram.components[i].barriers)}

(* The components of a lane whose barrier list contains b. *)
Referencing(kind, b) ==
    {i \in 1..Len(diagram.components) :
        /\ diagram.components[i].kind = kind
        /\ b \in Range(diagram.components[i].barriers)}

(* The calls of render r of one kind, as indices into r. *)
IsConnector(c, kind) == c.op = "draw_line" /\ c.site.kind = kind

IsNumericLabel(c, kind) ==
    /\ c.op = "draw_text"
    /\ c.align = "Center"
    /\ c.w = Q(BARRIER_WIDTH)
    /\ c.site.fn = "render_barriers.id"
    /\ c.site.kind = kind

IsNameLabel(c, kind) ==
    /\ c.op = "draw_text"
    /\ c.align = (IF kind = Cause THEN "Left" ELSE "Right")
    /\ c.site.fn = "render_barriers.label"
    /\ c.site.kind = kind

IsInterception(c, kind, b) ==
    /\ c.op = "draw_rectangle"
    /\ c.site.fn = "render_barriers.rect"
    /\ c.site.kind = kind
    /\ c.site.barrier = b

Count(r, P(_)) == Cardinality({k \in 1..Len(r) : P(r[k])})

(* C5: barrier numbers are global: the cause barriers carry 1..Mc in slot  *)
(* order, the consequence barriers Mc+1..Mc+Mq, and no two numeric labels  *)
(* of one render carry the same number.                                    *)
C5_GlobalNumbering ==
    \A r \in Renders :
        LET Mc == Cardinality(DistinctBarriers(Cause))
        IN  /\ \A k \in 1..Len(r) :
                /\ IsNumericLabel(r[k], Cause) =>
                      r[k].text = Format(r[k].site.i + 1)
                /\ IsNumericLabel(r[k], Consequence) =>
                      r[k].text = Format(Mc + r[k].site.i + 1)
            /\ \A k, l \in 1..Len(r) :
                (/\ \E kind \in ComponentKind : IsNumericLabel(r[k], kind)
                 /\ \E kind \in ComponentKind : IsNumericLabel(r[l], kind)
                 /\ r[k].text = r[l].text) => k = l

(* C6: per lane with N components and M distinct barriers a render draws   *)
(* N connector lines, M numeric labels, M name labels, and per barrier one *)
(* interception rectangle for each component of the lane that references   *)
(* it, however often its list repeats the name.                            *)
C6_DrawCounts ==
    \A r \in Renders : \A kind \in ComponentKind :
        /\ Count(r, LAMBDA c : IsConnector(c, kind)) = Len(Lane(kind))
        /\ Count(r, LAMBDA c : IsNumericLabel(c, kind))
              = Cardinality(DistinctBarriers(kind))
        /\ Count(r, LAMBDA c : IsNameLabel(c, kind))
              = Cardinality(DistinctBarriers(kind))
        /\ \A b \in DistinctBarriers(kind) :
              Count(r, LAMBDA c : IsInterception(c, kind, b))
                  = Cardinality(Referencing(kind, b))
        /\ Count(r, LAMBDA c : c.op = "draw_rectangle" /\ c.site.kind = kind)
              = Cardinality({<<i, b>> \in (1..Len(diagram.components))
                                            \X DistinctBarriers(kind) :
                                i \in Referencing(kind, b)})
        /\ Count(r, LAMBDA c : c.op = "draw_line")
              = Len(diagram.components)

(* A render of two causes where cause "a" carries "x" twice. *)
C6_Witness ==
    /\ renders # <<>>
    /\ Len(Causes) = 2
    /\ \E i \in 1..2 : Causes[i].barriers = <<<<"x">>, <<"x">>>>
    /\ Count(renders[1], LAMBDA c : IsInterception(c, Cause, <<"x">>)) = 1

Clamp(v) == IF v < 0 THEN 0 ELSE v

(* The container height of n boxes with the margin term clamped at zero. *)
ClampedHeight(n) ==
    n * Q(COMPONENT_HEIGHT) + Clamp((n - 1) * Q(COMPONENT_MARGIN_BOTTOM))

(* C7: an empty lane and a lane without barriers contribute 0 to the       *)
(* canvas height passed to setup: height = 1.1 * (max of the two clamped   *)
(* container heights + the two clamped barrier heights) + 150, so two      *)
(* causes and no consequences are sized by the cause lane alone.           *)
C7_ClampedSizing ==
    \A r \in Renders :
        /\ r[1].op = "setup"
        /\ r[1].h =
            ((Max(ClampedHeight(Len(Causes)), ClampedHeight(Len(Consequences)))
                + ClampedHeight(Cardinality(DistinctBarriers(Cause)))
                + ClampedHeight(Cardinality(DistinctBarriers(Consequence))))
              * 11) \div 10 + Q(150)

(* C8: two renders of the same diagram make the same calls with the same   *)
(* arguments in the same order.                                            *)
C8_Deterministic ==
    \A i, j \in 1..Len(renders) :
        /\ Len(renders[i]) = Len(renders[j])
        /\ \A k \in 1..Len(renders[i]) :
              k <= Len(renders[j]) => Args(renders[i][k]) = Args(renders[j][k])

(* The barrier names of a lane in first-seen order. *)
RECURSIVE Dedup(_)
Dedup(s) ==
    IF s = <<>> THEN <<>>
    ELSE LET rest == Dedup(SubSeq(s, 1, Len(s) - 1))
         IN  IF s[Len(s)] \in Range(rest) THEN rest ELSE Append(rest, s[Len(s)])

RECURSIVE Flatten(_)
Flatten(components) ==
    IF components = <<>> THEN <<>>
    ELSE Flatten(SubSeq(components, 1, Len(components) - 1))
            \o components[Len(components)].barriers

FirstSeen(kind) == Dedup(Flatten(Lane(kind)))

(* The slot order the claim prescribes: descending number of referencing   *)
(* components, equal numbers in first-seen order.                          *)
RECURSIVE InsertDescending(_, _)
InsertDescending(sorted, e) ==
    IF sorted = <<>> THEN <<e>>
    ELSE IF sorted[Len(sorted)][2] >= e[2] THEN Append(sorted, e)
    ELSE Append(InsertDescending(SubSeq(sorted, 1, Len(sorted) - 1), e),
                sorted[Len(sorted)])

RECURSIVE StableDescending(_)
StableDescending(v) ==
    IF v = <<>> THEN <<>>
    ELSE InsertDescending(StableDescending(SubSeq(v, 1, Len(v) - 1)), v[Len(v)])

PrescribedSlots(kind) ==
    StableDescending([n \in 1..Len(FirstSeen(kind)) |->
        <<FirstSeen(kind)[n], Cardinality(Referencing(kind, FirstSeen(kind)[n]))>>])

(* The x of the inner edge of the component boxes of a lane. *)
InnerEdgeX(r, kind) ==
    IF kind = Cause THEN canvas(diagram).max_component_box_width
                            + Q(COMPONENT_PADDING_X)
    ELSE r[1].w - canvas(diagram).max_component_box_width
            - Q(COMPONENT_PADDING_X)

Distance(r, kind, x) == Abs(x - InnerEdgeX(r, kind))

(* C9: in each lane slot i holds the i-th barrier in descending order of   *)
(* frequency, equal frequencies in first-seen order, and slot i is the     *)
(* i-th nearest slot to the component boxes.                               *)
C9_SlotOrder ==
    \A r \in Renders : \A kind \in ComponentKind :
        \A k \in 1..Len(r) :
            IsNumericLabel(r[k], kind) =>
                /\ r[k].site.barrier = PrescribedSlots(kind)[r[k].site.i + 1][1]
                /\ \A l \in 1..Len(r) :
                    (IsNumericLabel(r[l], kind) /\ r[l].site.i < r[k].site.i)
                        => Distance(r, kind, r[l].x) < Distance(r, kind, r[k].x)

(* Diagrams that differ from d in one measure only: the event label one    *)
(* character longer, a longest component name one character longer, or one *)
(* more distinct barrier on a lane.                                        *)
LongestName(d) == MaxOver({Len(d.components[i].name) : i \in 1..Len(d.components)})

Grown(d) ==
    {[d EXCEPT !.event = Append(@, "e")]}
    \cup {[d EXCEPT !.components[i].name = Append(@, "z")] :
            i \in {j \in 1..Len(d.components) :
                    Len(d.components[j].name) = LongestName(d)}}
    \cup {[d EXCEPT !.components[i].barriers = Append(@, <<"w">>)] :
            i \in 1..Len(d.components)}

(* C10: the canvas width and height passed to setup do not decrease when   *)
(* the event label gets longer, the longest component name gets longer or  *)
(* a lane gets one more distinct barrier, everything else being equal.     *)
C10_CanvasMonotone ==
    \A r \in Renders :
        \A d2 \in Grown(diagram) :
            \A fc \in get_barrier_frequencies(filter_components(d2, Cause)),
               fq \in get_barrier_frequencies(filter_components(d2, Consequence)) :
                LET r2 == render_diagram_into_bytes(d2, fc, fq)
                IN  /\ r[1].op = "setup" /\ r2[1].op = "setup"
                    /\ r2[1].w >= r[1].w
                    /\ r2[1].h >= r[1].h

(* A rendered diagram with an event label, two lanes and a cause lane      *)
(* without any barrier (its next barrier is the step from 0 to 1).         *)
C10_Witness ==
    /\ renders # <<>>
    /\ diagram.event # <<>>
    /\ Len(Causes) >= 1
    /\ Len(Consequences) >= 1
    /\ DistinctBarriers(Cause) = {}
    /\ DistinctBarriers(Consequence) # {}

----------------------------------------------------------------------------
(* Properties of the connectors and the interception points.               *)

(* The call of render r made at this site, for sites that occur once. *)
CallAt(r, fn, kind, i, j) ==
    r[CHOOSE k \in 1..Len(r) :
        /\ r[k].site.fn = fn /\ r[k].site.kind = kind
        /\ r[k].site.i = i /\ r[k].site.j = j]

ConnectorOf(r, kind, j) == CallAt(r, "render_barrier_lines", kind, -1, j)
SlotLabelOf(r, kind, i) == CallAt(r, "render_barriers.id", kind, i, -1)
BoxOf(r, kind, j) == CallAt(r, "render_components", kind, -1, j)

IsAnyInterception(c) ==
    c.op = "draw_rectangle" /\ c.site.fn = "render_barriers.rect"

(* C11: every interception rectangle of slot s on component c's connector  *)
(* is centred at the x of slot s and at the y with                         *)
(* (y - y0) * (x1 - x0) = (y1 - y0) * (x - x0), (x0, y0) and (x1, y1)      *)
(* being the two endpoints of c's connector line.                          *)
C11_OnConnector ==
    \A r \in Renders : \A k \in 1..Len(r) :
        IsAnyInterception(r[k]) =>
            LET c == r[k]
                ln == ConnectorOf(r, c.site.kind, c.site.j)
                x0 == ln.x
                y0 == ln.y.n
                x1 == ln.x2
                y1 == ln.y2.n
            IN  /\ c.x = SlotLabelOf(r, c.site.kind, c.site.i).x
                /\ c.y.d # 0
                /\ (c.y.n - y0 * c.y.d) * (x1 - x0)
                      = (y1 - y0) * (c.x - x0) * c.y.d

(* C12: every cause connector runs from the right edge of its box to       *)
(* (cx - r, cy) and every consequence connector from the left edge of its  *)
(* box to (cx + r, cy); (cx, cy) is the canvas centre and r, the radius of *)
(* the event circle, is half the text width of the event label.            *)
C12_ConnectorEndpoints ==
    \A r \in Renders :
        LET w == r[1].w
            h == r[1].h
            circle == CallAt(r, "render_event_circle", "none", -1, -1)
        IN  /\ circle.op = "draw_circle"
            /\ 2 * circle.r = Q(Len(diagram.event) * 15)
            /\ 2 * circle.x = w
            /\ 2 * circle.y.n = h /\ circle.y.d = 1
            /\ \A k \in 1..Len(r) :
                r[k].op = "draw_line" =>
                    LET ln == r[k]
                        box == BoxOf(r, ln.site.kind, ln.site.j)
                        sign == IF ln.site.kind = Cause THEN 1 ELSE -1
                    IN  /\ box.op = "draw_text_with_rectangle"
                        /\ 2 * ln.x = 2 * box.x + sign * box.w
                        /\ ln.y = box.y
                        /\ 2 * ln.x2 = w - sign * 2 * circle.r
                        /\ 2 * ln.y2.n = h /\ ln.y2.d = 1

(* A render with a connector on each side of a circle of radius > 0. *)
C12_Witness ==
    /\ renders # <<>>
    /\ diagram.event # <<>>
    /\ \E k, l \in 1..Len(renders[1]) :
        /\ IsConnector(renders[1][k], Cause)
        /\ IsConnector(renders[1][l], Consequence)
        /\ renders[1][k].x2 < renders[1][l].x2

----------------------------------------------------------------------------
(* Properties of the call sequence.                                        *)

(* The number of calls render_barriers makes for a lane: two labels per    *)
(* distinct barrier and one rectangle per (barrier, referencing component).*)
BarrierCalls(kind) ==
    2 * Cardinality(DistinctBarriers(kind))
        + Cardinality({<<i, b>> \in (1..Len(diagram.components))
                                      \X DistinctBarriers(kind) :
                          i \in Referencing(kind, b)})

IsBarrierDraw(c, kind) ==
    /\ c.op \in {"draw_text", "draw_rectangle"}
    /\ c.site.fn \in {"render_barriers.id", "render_barriers.label",
                      "render_barriers.rect"}
    /\ c.site.kind = kind

(* C13: every render of a parsed diagram, whatever its lanes hold, runs to *)
(* its end: it calls setup once and first, then draws the canvas border,   *)
(* the cause boxes and the consequence boxes in diagram order, the event   *)
(* circle and its label, the cause connectors, the consequence connectors, *)
(* the cause barriers, the consequence barriers, and calls into_bytes once *)
(* and last.                                                               *)
C13_CallOrder ==
    \A r \in Renders :
     LET Nc == Len(Causes)
         Nq == Len(Consequences)
         boxes == 2
         circle == boxes + Nc + Nq
         lines == circle + 2
         barriers == lines + Nc + Nq
         last == barriers + BarrierCalls(Cause) + BarrierCalls(Consequence) + 1
     IN  /\ Len(r) = last
         /\ r[1].op = "setup"
         /\ r[last].op = "into_bytes"
         /\ \A k \in 1..Len(r) :
             /\ r[k].op = "setup" => k = 1
             /\ r[k].op = "into_bytes" => k = last
         /\ r[2].op = "draw_rectangle"
         /\ r[2].w = r[1].w /\ r[2].h = r[1].h
         /\ 2 * r[2].x = r[1].w /\ 2 * r[2].y.n = r[1].h
         /\ \A j \in 1..Nc :
             /\ r[boxes + j].op = "draw_text_with_rectangle"
             /\ r[boxes + j].text = Causes[j].name
             /\ r[boxes + j].x < r[circle + 1].x
         /\ \A j \in 1..Nq :
             /\ r[boxes + Nc + j].op = "draw_text_with_rectangle"
             /\ r[boxes + Nc + j].text = Consequences[j].name
             /\ r[boxes + Nc + j].x > r[circle + 1].x
         /\ r[circle + 1].op = "draw_circle"
         /\ r[circle + 2].op = "draw_text"
         /\ r[circle + 2].text = diagram.event
         /\ \A j \in 1..Nc :
             /\ IsConnector(r[lines + j], Cause)
             /\ r[lines + j].y = r[boxes + j].y
         /\ \A j \in 1..Nq :
             /\ IsConnector(r[lines + Nc + j], Consequence)
             /\ r[lines + Nc + j].y = r[boxes + Nc + j].y
         /\ \A k \in 1..BarrierCalls(Cause) :
             IsBarrierDraw(r[barriers + k], Cause)
         /\ \A k \in 1..BarrierCalls(Consequence) :
             IsBarrierDraw(r[barriers + BarrierCalls(Cause) + k], Consequence)

(* A completed render of a diagram with causes, barriers on them and an    *)
(* empty consequence lane.                                                 *)
C13_Witness ==
    /\ renders # <<>>
    /\ Len(Causes) >= 2
    /\ Len(Consequences) = 0
    /\ DistinctBarriers(Cause) # {}
    /\ renders[1][Len(renders[1])].op = "into_bytes"

----------------------------------------------------------------------------
(* Properties of the barrier slots.                                        *)

(* C14: the x of every barrier slot lies strictly between the inner edge   *)
(* of the lane's boxes and the lane's circle point, i.e. between the two   *)
(* endpoints of the lane's connectors: edge < x < cx - r for causes,       *)
(* cx + r < x < edge for consequences.                                     *)
C14_SlotsBetweenBoxAndCircle ==
    \A r \in Renders : \A kind \in ComponentKind : \A k, l \in 1..Len(r) :
        (IsNumericLabel(r[k], kind) /\ IsConnector(r[l], kind)) =>
            IF kind = Cause
            THEN r[l].x < r[k].x /\ r[k].x < r[l].x2
            ELSE r[l].x2 < r[k].x /\ r[k].x < r[l].x

(* C15: the frequency get_barrier_frequencies pairs with a barrier name of *)
(* a lane is the number of components of that lane whose barrier list      *)
(* contains the name (a name repeated in one list counts once), and the    *)
(* names it returns are those of that lane's own components only.          *)
C15_FrequencyCountsComponents ==
    renders # <<>> =>
        \A kind \in ComponentKind :
            \A v \in get_barrier_frequencies(Lane(kind)) :
                /\ {v[n][1] : n \in 1..Len(v)} = DistinctBarriers(kind)
                /\ \A n \in 1..Len(v) :
                    v[n][2] = Cardinality(Referencing(kind, v[n][1]))

(* The interception rectangles render r draws for barrier b on the         *)
(* connector of the j-th (from 0) component of a lane.                     *)
InterceptionsOn(r, kind, j, b) ==
    {k \in 1..Len(r) : IsInterception(r[k], kind, b) /\ r[k].site.j = j}

IsVertical(ln) == ln.x = ln.x2

(* C16: the interception computation is unguarded: for every connector and *)
(* every barrier its component references, exactly one rectangle is drawn, *)
(* vertical connector or not, the render still ends with into_bytes, and   *)
(* the rectangle's y is the non-finite result of a division by a zero run  *)
(* exactly when the connector's endpoints have the same x.                 *)
C16_UnguardedDivision ==
    \A r \in Renders :
        /\ r[Len(r)].op = "into_bytes"
        /\ \A kind \in ComponentKind : \A l \in 1..Len(r) :
            IsConnector(r[l], kind) =>
                \A b \in Range(Lane(kind)[r[l].site.j + 1].barriers) :
                    LET rects == InterceptionsOn(r, kind, r[l].site.j, b)
                    IN  /\ Cardinality(rects) = 1
                        /\ \A k \in rects :
                            IsVertical(r[l]) <=> r[k].y.d = 0

(* A render with a vertical connector and a rectangle drawn for it at a y  *)
(* that is not a number.                                                   *)
C16_Witness ==
    /\ renders # <<>>
    /\ \E l, k \in 1..Len(renders[1]) :
        /\ IsConnector(renders[1][l], Cause)
        /\ IsVertical(renders[1][l])
        /\ IsAnyInterception(renders[1][k])
        /\ renders[1][k].site.kind = Cause
        /\ renders[1][k].site.j = renders[1][l].site.j
        /\ renders[1][k].y.d = 0
    /\ renders[1][Len(renders[1])].op = "into_bytes"

(* C17: every barrier label row lies vertically inside the canvas: the top *)
(* edge of every numeric label is at y >= 0 and the bottom edge of every   *)
(* name label, the last one of each lane included, is at y <= the canvas   *)
(* height passed to setup.                                                 *)
C17_LabelsInsideCanvas ==
    \A r \in Renders : \A kind \in ComponentKind : \A k \in 1..Len(r) :
        /\ IsNumericLabel(r[k], kind) => 2 * r[k].y.n - r[k].h >= 0
        /\ IsNameLabel(r[k], kind) => 2 * r[k].y.n + r[k].h <= 2 * r[1].h

----------------------------------------------------------------------------
(* Order of declarations and barrier lines.                                *)

IsDeclaration(l) == HasSpace(l) /\ CommandOf(l) \in {CmdCause, CmdConsequence}

KindOf(l) == IF CommandOf(l) = CmdCause THEN Cause ELSE Consequence

(* l declares a component that d does not hold yet. *)
DeclaresNew(l, d) ==
    /\ IsDeclaration(l)
    /\ \A i \in 1..Len(d.components) :
        ~(d.components[i].kind = KindOf(l) /\ d.components[i].name = ValueOf(l))

Last(s) == s[Len(s)]

(* C18: a barrier line attaches only to components declared before it: a   *)
(* component declared by the current line starts with an empty barrier     *)
(* list whatever barrier lines preceded it, and for every barrier line     *)
(* that names it, parsing the barrier line before the declaration gives a  *)
(* diagram different from parsing it after the declaration: only in the    *)
(* latter does the new component carry the barrier.                        *)
C18_NoRetroactiveBarrier ==
    [][(LineStep /\ DeclaresNew(line', diagram)) =>
        /\ Len(diagram'.components) = Len(diagram.components) + 1
        /\ Last(diagram'.components) = Component(ValueOf(line'), KindOf(line'))
        /\ \A l2 \in Lines :
            (IsBarrierLine(l2) /\ ValueOf(line') \in TargetsOf(l2)) =>
                LET early == ParseLine(ParseLine(diagram, l2), line')
                    late == ParseLine(diagram', l2)
                IN  /\ early # late
                    /\ Len(early.components) = Len(late.components)
                    /\ Last(early.components).barriers = <<>>
                    /\ Last(late.components).barriers = <<BarrierNameOf(l2)>>]_vars

(* "barrier x: a" was parsed after consequence "a" and before cause "a":   *)
(* the consequence carries x, the cause declared later does not.           *)
C18_Witness ==
    /\ nlines = 3
    /\ line = LineCauseA
    /\ diagram.components =
        <<[name |-> <<"a">>, barriers |-> <<<<"x">>>>, kind |-> Consequence],
          [name |-> <<"a">>, barriers |-> <<>>, kind |-> Cause]>>

====
